---- MODULE Spec2Model ----
(***************************************************************************)
(* Model of src/src/lib.rs: CustomLogger, an asynchronous logger.  Call    *)
(* sites filter a record by module allowlist and send it over an           *)
(* std::sync::mpsc channel to one printing thread; shutdown() drops the     *)
(* sender and joins the thread.                                             *)
(***************************************************************************)
EXTENDS Integers, Sequences, FiniteSets, TLC

(* ---- bounds of the model ---- *)
NThreads == 2
MaxCalls == 4
MaxLen == 4

Threads == 1..NThreads
NoThread == 0
NoEvent == 0

(* ---- log::Level, ordered Error < Warn < Info < Debug < Trace ---- *)
Error == 1
Warn == 2
Info == 3
Debug == 4
Trace == 5
Levels == {Error, Warn, Info, Debug, Trace}

(* ---- strings are sequences of chars; a char has a UTF-8 width ---- *)
\* "U+00E9" stands for the one char e-acute, two bytes in UTF-8
Chars == {"a", "_", ":", "U+00E9"}
CharBytes(c) == IF c = "U+00E9" THEN 2 ELSE 1

RECURSIVE StrLen(_)
StrLen(s) == IF s = <<>> THEN 0 ELSE CharBytes(Head(s)) + StrLen(Tail(s))

StringsUpTo(n) == UNION {[1..k -> Chars] : k \in 0..n}

CharsNext(s, i) == IF i <= Len(s) THEN <<s[i]>> ELSE <<>>

Range(s) == {s[i] : i \in 1..Len(s)}
IsPrefix(p, s) == Len(p) <= Len(s) /\ SubSeq(s, 1, Len(p)) = p

(* ---- check_target_allowed, lines 95-124 ---- *)
RECURSIVE PrefixLoop(_, _, _, _)
PrefixLoop(module_name, target, i, n) ==
    IF i = n THEN [starts_with |-> TRUE, pos |-> i + 1]
    ELSE IF CharsNext(module_name, i + 1) = CharsNext(target, i + 1)
         THEN PrefixLoop(module_name, target, i + 1, n)
         ELSE [starts_with |-> FALSE, pos |-> i + 2]

\* a plain starts_with, without the "::" boundary
ModuleMatchesNaive(module_name, target) == IsPrefix(module_name, target)

ModuleMatches(module_name, target) ==
    IF module_name = target THEN TRUE
    ELSE IF StrLen(target) < StrLen(module_name) THEN FALSE
    ELSE LET r == PrefixLoop(module_name, target, 0, StrLen(module_name))
             colons == /\ CharsNext(target, r.pos) = <<":">>
                       /\ CharsNext(target, r.pos + 1) = <<":">>
         IN  r.starts_with /\ colons

check_target_allowed(allowed, target) ==
    \E module_name \in allowed : ModuleMatches(module_name, target)

(* ---- enabled, lines 128-130 ---- *)
enabled(level) == level <= Info

(* ---- inputs of the pipeline model ---- *)
RootModule == <<"a">>
LogTargets == {<<"a", ":", ":", "a">>, <<"a", "_">>}
LogLevels == {Info, Debug}
ModuleArgs == {<<"a">>, <<"a", "_">>}

VARIABLES
    sender,           \* Mutex<Option<Sender>>: "Some" or "None"
    thread_handle,    \* Mutex<Option<JoinHandle>>: "Some" or "None"
    handleOwner,      \* thread holding the thread_handle mutex, or NoThread
    handlePoisoned,   \* the thread_handle mutex is poisoned
    allowed_modules,  \* RwLock<HashSet<String>>
    chan,             \* events sent and not yet received
    consumer,         \* "recv", "print", "exited", "panicked"
    cur,              \* event the consumer has received and not yet written
    printed,          \* lines written to stdout, in order
    stderr,           \* events whose send failure was reported with eprintln!
    failedWrites,     \* events whose println! failed
    events,           \* every record passed to log: target, level, outcome
    enqueued,         \* events in the order their send completed
    pc,               \* position of each calling thread
    ev,               \* event of the thread's current log call
    sdSnap,           \* events enqueued when the thread's shutdown began
    sdDone,           \* the thread's latest shutdown call has returned
    nReturned,        \* number of shutdown calls that have returned
    nCalls,           \* number of calls made to the logger so far
    mods,             \* the allow_module / disallow_module calls made, in order
    extra,            \* the printing thread spawned by a second init_logger call
    fAllowed, fTarget, fResult   \* inputs and result of the filter check

lockVars == <<thread_handle, handleOwner, handlePoisoned>>
outVars == <<printed, stderr, failedWrites>>
sdVars == <<sdSnap, sdDone, nReturned>>
filterVars == <<fAllowed, fTarget, fResult>>
vars == <<sender, lockVars, allowed_modules, chan, consumer, cur, outVars, events,
          enqueued, pc, ev, sdVars, nCalls, filterVars, mods, extra>>

(* ---- CustomLogger::new / init_logger, lines 26-69 and 173-178 ---- *)
new(root_module) ==
    /\ sender = "Some"
    /\ thread_handle = "Some"
    /\ handleOwner = NoThread
    /\ handlePoisoned = FALSE
    /\ allowed_modules = {root_module}
    /\ chan = <<>>
    /\ consumer = "recv"
    /\ cur = NoEvent
    /\ printed = <<>>
    /\ stderr = <<>>
    /\ failedWrites = {}
    /\ events = <<>>
    /\ enqueued = <<>>
    /\ pc = [t \in Threads |-> "idle"]
    /\ ev = [t \in Threads |-> NoEvent]
    /\ sdSnap = [t \in Threads |-> {}]
    /\ sdDone = [t \in Threads |-> FALSE]
    /\ nReturned = 0
    /\ nCalls = 0
    /\ mods = <<>>
    /\ extra = "none"

Init ==
    /\ new(RootModule)
    /\ fAllowed = {}
    /\ fTarget = <<>>
    /\ fResult = "none"

SetOutcome(e, o) == [events EXCEPT ![e].outcome = o]

\* log that reports a rejected record on stderr instead of returning silently
log_report_rejected(t, target, level) ==
    /\ pc[t] = "idle"
    /\ nCalls < MaxCalls
    /\ nCalls' = nCalls + 1
    /\ IF check_target_allowed(allowed_modules, target)
       THEN /\ events' = Append(events, [target |-> target, level |-> level,
                                         outcome |-> "admitted"])
            /\ ev' = [ev EXCEPT ![t] = Len(events) + 1]
            /\ pc' = [pc EXCEPT ![t] = "log_send"]
            /\ UNCHANGED stderr
       ELSE /\ events' = Append(events, [target |-> target, level |-> level,
                                         outcome |-> "filtered"])
            /\ stderr' = Append(stderr, Len(events) + 1)
            /\ UNCHANGED <<ev, pc>>
    /\ UNCHANGED <<sender, lockVars, allowed_modules, chan, consumer, cur, printed,
                   failedWrites, enqueued, sdVars, filterVars, mods, extra>>

(* ---- log, lines 132-139: build the record, then the allowlist check ---- *)
log(t, target, level) ==
    /\ pc[t] = "idle"
    /\ nCalls < MaxCalls
    /\ nCalls' = nCalls + 1
    /\ IF check_target_allowed(allowed_modules, target)
       THEN /\ events' = Append(events, [target |-> target, level |-> level,
                                         outcome |-> "admitted"])
            /\ ev' = [ev EXCEPT ![t] = Len(events) + 1]
            /\ pc' = [pc EXCEPT ![t] = "log_send"]
       ELSE /\ events' = Append(events, [target |-> target, level |-> level,
                                         outcome |-> "filtered"])
            /\ UNCHANGED <<ev, pc>>
    /\ UNCHANGED <<sender, lockVars, allowed_modules, chan, consumer, cur, outVars,
                   enqueued, sdVars, filterVars, mods, extra>>

\* log_send over a sync_channel(1): the send waits while an event is pending
log_send_bounded(t) ==
    /\ pc[t] = "log_send"
    /\ (sender = "Some" /\ consumer \in {"recv", "print"}) => Len(chan) < 1
    /\ IF sender = "Some"
       THEN IF consumer \in {"recv", "print"}
            THEN /\ chan' = Append(chan, ev[t])
                 /\ enqueued' = Append(enqueued, ev[t])
                 /\ events' = SetOutcome(ev[t], "enqueued")
                 /\ UNCHANGED stderr
            ELSE /\ stderr' = Append(stderr, ev[t])
                 /\ events' = SetOutcome(ev[t], "send_failed")
                 /\ UNCHANGED <<chan, enqueued>>
       ELSE /\ events' = SetOutcome(ev[t], "no_sender")
            /\ UNCHANGED <<chan, enqueued, stderr>>
    /\ pc' = [pc EXCEPT ![t] = "idle"]
    /\ ev' = [ev EXCEPT ![t] = NoEvent]
    /\ UNCHANGED <<sender, lockVars, allowed_modules, consumer, cur, printed,
                   failedWrites, sdVars, nCalls, filterVars, mods, extra>>

\* log_send that unwraps the sender instead of testing it for None
log_send_unwrap(t) ==
    /\ pc[t] = "log_send"
    /\ IF sender = "Some"
       THEN /\ pc' = [pc EXCEPT ![t] = "idle"]
            /\ IF consumer \in {"recv", "print"}
               THEN /\ chan' = Append(chan, ev[t])
                    /\ enqueued' = Append(enqueued, ev[t])
                    /\ events' = SetOutcome(ev[t], "enqueued")
                    /\ UNCHANGED stderr
               ELSE /\ stderr' = Append(stderr, ev[t])
                    /\ events' = SetOutcome(ev[t], "send_failed")
                    /\ UNCHANGED <<chan, enqueued>>
       ELSE /\ pc' = [pc EXCEPT ![t] = "panicked"]
            /\ events' = SetOutcome(ev[t], "no_sender")
            /\ UNCHANGED <<chan, enqueued, stderr>>
    /\ ev' = [ev EXCEPT ![t] = NoEvent]
    /\ UNCHANGED <<sender, lockVars, allowed_modules, consumer, cur, printed,
                   failedWrites, sdVars, nCalls, filterVars, mods, extra>>

\* log_send that expects the send to succeed instead of reporting its error
log_send_expect(t) ==
    /\ pc[t] = "log_send"
    /\ IF sender = "Some"
       THEN IF consumer \in {"recv", "print"}
            THEN /\ chan' = Append(chan, ev[t])
                 /\ enqueued' = Append(enqueued, ev[t])
                 /\ events' = SetOutcome(ev[t], "enqueued")
                 /\ pc' = [pc EXCEPT ![t] = "idle"]
            ELSE /\ events' = SetOutcome(ev[t], "send_failed")
                 /\ pc' = [pc EXCEPT ![t] = "panicked"]
                 /\ UNCHANGED <<chan, enqueued>>
       ELSE /\ events' = SetOutcome(ev[t], "no_sender")
            /\ pc' = [pc EXCEPT ![t] = "idle"]
            /\ UNCHANGED <<chan, enqueued>>
    /\ ev' = [ev EXCEPT ![t] = NoEvent]
    /\ UNCHANGED <<sender, lockVars, allowed_modules, consumer, cur, outVars,
                   sdVars, nCalls, filterVars, mods, extra>>

\* log_send on a sender cloned before the mutex was released: the send goes
\* through although shutdown has taken the sender meanwhile
log_send_cloned(t) ==
    /\ pc[t] = "log_send"
    /\ IF consumer \in {"recv", "print"}
       THEN /\ chan' = Append(chan, ev[t])
            /\ enqueued' = Append(enqueued, ev[t])
            /\ events' = SetOutcome(ev[t], "enqueued")
            /\ UNCHANGED stderr
       ELSE /\ stderr' = Append(stderr, ev[t])
            /\ events' = SetOutcome(ev[t], "send_failed")
            /\ UNCHANGED <<chan, enqueued>>
    /\ pc' = [pc EXCEPT ![t] = "idle"]
    /\ ev' = [ev EXCEPT ![t] = NoEvent]
    /\ UNCHANGED <<sender, lockVars, allowed_modules, consumer, cur, printed,
                   failedWrites, sdVars, nCalls, filterVars, mods, extra>>

(* ---- log, lines 150-155: the send under the sender mutex ---- *)
log_send(t) ==
    /\ pc[t] = "log_send"
    /\ IF sender = "Some"
       THEN IF consumer \in {"recv", "print"}
            THEN /\ chan' = Append(chan, ev[t])
                 /\ enqueued' = Append(enqueued, ev[t])
                 /\ events' = SetOutcome(ev[t], "enqueued")
                 /\ UNCHANGED stderr
            ELSE /\ stderr' = Append(stderr, ev[t])
                 /\ events' = SetOutcome(ev[t], "send_failed")
                 /\ UNCHANGED <<chan, enqueued>>
       ELSE /\ events' = SetOutcome(ev[t], "no_sender")
            /\ UNCHANGED <<chan, enqueued, stderr>>
    /\ pc' = [pc EXCEPT ![t] = "idle"]
    /\ ev' = [ev EXCEPT ![t] = NoEvent]
    /\ UNCHANGED <<sender, lockVars, allowed_modules, consumer, cur, printed,
                   failedWrites, sdVars, nCalls, filterVars, mods, extra>>

\* shutdown that expects a sender to be there and panics on a second call
shutdown_strict(t) ==
    /\ pc[t] = "idle"
    /\ nCalls < MaxCalls
    /\ nCalls' = nCalls + 1
    /\ sdSnap' = [sdSnap EXCEPT ![t] = Range(enqueued)]
    /\ sdDone' = [sdDone EXCEPT ![t] = FALSE]
    /\ sender' = "None"
    /\ pc' = [pc EXCEPT ![t] = IF sender = "Some" THEN "sd_lock" ELSE "panicked"]
    /\ UNCHANGED <<lockVars, allowed_modules, chan, consumer, cur, outVars, events,
                   enqueued, ev, nReturned, filterVars, mods, extra>>

(* ---- shutdown, lines 71-73: take the sender out of its mutex ---- *)
shutdown(t) ==
    /\ pc[t] = "idle"
    /\ nCalls < MaxCalls
    /\ nCalls' = nCalls + 1
    /\ sdSnap' = [sdSnap EXCEPT ![t] = Range(enqueued)]  \* sends completed so far
    /\ sdDone' = [sdDone EXCEPT ![t] = FALSE]
    /\ sender' = "None"
    /\ pc' = [pc EXCEPT ![t] = "sd_lock"]
    /\ UNCHANGED <<lockVars, allowed_modules, chan, consumer, cur, outVars, events,
                   enqueued, ev, nReturned, filterVars, mods, extra>>

\* shutdown that takes the handle and drops it without joining
shutdown_take_handle_nojoin(t) ==
    /\ pc[t] = "sd_lock"
    /\ handleOwner = NoThread
    /\ IF handlePoisoned
       THEN /\ pc' = [pc EXCEPT ![t] = "panicked"]
            /\ UNCHANGED <<thread_handle, sdDone, nReturned>>
       ELSE /\ thread_handle' = "None"
            /\ pc' = [pc EXCEPT ![t] = "idle"]
            /\ sdDone' = [sdDone EXCEPT ![t] = TRUE]
            /\ nReturned' = nReturned + 1
    /\ UNCHANGED <<sender, handleOwner, handlePoisoned, allowed_modules, chan, consumer,
                   cur, outVars, events, enqueued, ev, sdSnap, nCalls, filterVars, mods, extra>>

\* shutdown that releases the thread_handle mutex before it joins
shutdown_take_handle_unlocked(t) ==
    /\ pc[t] = "sd_lock"
    /\ handleOwner = NoThread
    /\ IF handlePoisoned
       THEN /\ pc' = [pc EXCEPT ![t] = "panicked"]
            /\ UNCHANGED <<thread_handle, sdDone, nReturned>>
       ELSE IF thread_handle = "Some"
            THEN /\ thread_handle' = "None"
                 /\ pc' = [pc EXCEPT ![t] = "sd_join"]
                 /\ UNCHANGED <<sdDone, nReturned>>
            ELSE /\ pc' = [pc EXCEPT ![t] = "idle"]
                 /\ sdDone' = [sdDone EXCEPT ![t] = TRUE]
                 /\ nReturned' = nReturned + 1
                 /\ UNCHANGED thread_handle
    /\ UNCHANGED <<sender, handleOwner, handlePoisoned, allowed_modules, chan, consumer,
                   cur, outVars, events, enqueued, ev, sdSnap, nCalls, filterVars, mods, extra>>

(* ---- shutdown, line 76: lock thread_handle and take the handle ---- *)
shutdown_take_handle(t) ==
    /\ pc[t] = "sd_lock"
    /\ handleOwner = NoThread
    /\ IF handlePoisoned
       THEN /\ pc' = [pc EXCEPT ![t] = "panicked"]
            /\ UNCHANGED <<thread_handle, handleOwner, sdDone, nReturned>>
       ELSE IF thread_handle = "Some"
            THEN /\ thread_handle' = "None"
                 /\ handleOwner' = t
                 /\ pc' = [pc EXCEPT ![t] = "sd_join"]
                 /\ UNCHANGED <<sdDone, nReturned>>
            ELSE /\ pc' = [pc EXCEPT ![t] = "idle"]
                 /\ sdDone' = [sdDone EXCEPT ![t] = TRUE]
                 /\ nReturned' = nReturned + 1
                 /\ UNCHANGED <<thread_handle, handleOwner>>
    /\ UNCHANGED <<sender, handlePoisoned, allowed_modules, chan, consumer, cur,
                   outVars, events, enqueued, ev, sdSnap, nCalls, filterVars, mods, extra>>

\* a join that returns at once, whether or not the thread has finished
shutdown_join_nowait(t) ==
    /\ pc[t] = "sd_join"
    /\ handleOwner' = NoThread
    /\ IF consumer # "panicked"
       THEN /\ pc' = [pc EXCEPT ![t] = "idle"]
            /\ sdDone' = [sdDone EXCEPT ![t] = TRUE]
            /\ nReturned' = nReturned + 1
            /\ UNCHANGED handlePoisoned
       ELSE /\ pc' = [pc EXCEPT ![t] = "panicked"]
            /\ handlePoisoned' = TRUE
            /\ UNCHANGED <<sdDone, nReturned>>
    /\ UNCHANGED <<sender, thread_handle, allowed_modules, chan, consumer, cur,
                   outVars, events, enqueued, ev, sdSnap, nCalls, filterVars, mods, extra>>

(* ---- shutdown, lines 77-78: join, with the mutex guard still alive ---- *)
shutdown_join(t) ==
    /\ pc[t] = "sd_join"
    /\ consumer \in {"exited", "panicked"}
    /\ handleOwner' = NoThread
    /\ IF consumer = "exited"
       THEN /\ pc' = [pc EXCEPT ![t] = "idle"]
            /\ sdDone' = [sdDone EXCEPT ![t] = TRUE]
            /\ nReturned' = nReturned + 1
            /\ UNCHANGED handlePoisoned
       ELSE /\ pc' = [pc EXCEPT ![t] = "panicked"]
            /\ handlePoisoned' = TRUE
            /\ UNCHANGED <<sdDone, nReturned>>
    /\ UNCHANGED <<sender, thread_handle, allowed_modules, chan, consumer, cur,
                   outVars, events, enqueued, ev, sdSnap, nCalls, filterVars, mods, extra>>

\* allow_module that toggles the entry instead of inserting it
allow_module_toggle(t, module_name) ==
    /\ pc[t] = "idle"
    /\ nCalls < MaxCalls
    /\ nCalls' = nCalls + 1
    /\ allowed_modules' = IF module_name \in allowed_modules
                          THEN allowed_modules \ {module_name}
                          ELSE allowed_modules \cup {module_name}
    /\ mods' = Append(mods, [op |-> "allow", module_name |-> module_name])
    /\ UNCHANGED <<sender, lockVars, chan, consumer, cur, outVars, events,
                   enqueued, pc, ev, sdVars, filterVars, extra>>

(* ---- allow_module / disallow_module, lines 81-93 ---- *)
allow_module(t, module_name) ==
    /\ pc[t] = "idle"
    /\ nCalls < MaxCalls
    /\ nCalls' = nCalls + 1
    /\ allowed_modules' = allowed_modules \cup {module_name}
    /\ mods' = Append(mods, [op |-> "allow", module_name |-> module_name])
    /\ UNCHANGED <<sender, lockVars, chan, consumer, cur, outVars, events,
                   enqueued, pc, ev, sdVars, filterVars, extra>>

disallow_module(t, module_name) ==
    /\ pc[t] = "idle"
    /\ nCalls < MaxCalls
    /\ nCalls' = nCalls + 1
    /\ allowed_modules' = allowed_modules \ {module_name}
    /\ mods' = Append(mods, [op |-> "disallow", module_name |-> module_name])
    /\ UNCHANGED <<sender, lockVars, chan, consumer, cur, outVars, events,
                   enqueued, pc, ev, sdVars, filterVars, extra>>

\* a receive that takes the newest event instead of the oldest
consumer_recv_lifo ==
    /\ consumer = "recv"
    /\ chan # <<>>
    /\ cur' = chan[Len(chan)]
    /\ chan' = SubSeq(chan, 1, Len(chan) - 1)
    /\ consumer' = "print"
    /\ UNCHANGED <<sender, lockVars, allowed_modules, outVars, events,
                   enqueued, pc, ev, sdVars, nCalls, filterVars, mods, extra>>

(* ---- the printing thread, lines 32-62 ---- *)
consumer_recv ==
    /\ consumer = "recv"
    /\ chan # <<>>
    /\ cur' = Head(chan)
    /\ chan' = Tail(chan)
    /\ consumer' = "print"
    /\ UNCHANGED <<sender, lockVars, allowed_modules, outVars, events,
                   enqueued, pc, ev, sdVars, nCalls, filterVars, mods, extra>>

\* println! panics when the write to stdout fails; the unwinding thread
\* drops the receiver together with everything still buffered.
consumer_print(ok) ==
    /\ consumer = "print"
    /\ IF ok
       THEN /\ printed' = Append(printed, cur)
            /\ events' = SetOutcome(cur, "printed")
            /\ consumer' = "recv"
            /\ UNCHANGED <<chan, failedWrites>>
       ELSE /\ failedWrites' = failedWrites \cup {cur}
            /\ events' = [e \in 1..Len(events) |->
                            IF e = cur \/ e \in Range(chan)
                            THEN [events[e] EXCEPT !.outcome = "lost"]
                            ELSE events[e]]
            /\ consumer' = "panicked"
            /\ chan' = <<>>
            /\ UNCHANGED printed
    /\ cur' = NoEvent
    /\ UNCHANGED <<sender, lockVars, allowed_modules, stderr,
                   enqueued, pc, ev, sdVars, nCalls, filterVars, mods, extra>>

consumer_exit ==
    /\ consumer = "recv"
    /\ chan = <<>>
    /\ sender = "None"
    /\ consumer' = "exited"
    /\ UNCHANGED <<sender, lockVars, allowed_modules, chan, cur, outVars, events,
                   enqueued, pc, ev, sdVars, nCalls, filterVars, mods, extra>>

Next ==
    \/ \E t \in Threads, target \in LogTargets, level \in LogLevels : log(t, target, level)
    \/ \E t \in Threads : log_send(t)
    \/ \E t \in Threads : shutdown(t)
    \/ \E t \in Threads : shutdown_take_handle(t)
    \/ \E t \in Threads : shutdown_join(t)
    \/ \E t \in Threads, m \in ModuleArgs : allow_module(t, m)
    \/ \E t \in Threads, m \in ModuleArgs : disallow_module(t, m)
    \/ consumer_recv
    \/ \E ok \in BOOLEAN : consumer_print(ok)
    \/ consumer_exit

Spec == Init /\ [][Next]_vars

(* ---- fair scheduling: a thread inside a call and the printing thread ---- *)
(* ---- keep running; whether a call is made at all is up to the caller  ---- *)
Fairness ==
    /\ \A t \in Threads : WF_vars(log_send(t))
    /\ \A t \in Threads : WF_vars(shutdown_take_handle(t))
    /\ \A t \in Threads : WF_vars(shutdown_join(t))
    /\ WF_vars(consumer_recv)
    /\ WF_vars(\E ok \in BOOLEAN : consumer_print(ok))
    /\ WF_vars(consumer_exit)

SpecFair == Spec /\ Fairness

(* ---- a second init_logger call, lines 173-178; Init is the state after ---- *)
(* ---- the first call, so the process-wide logger is already set        ---- *)
\* line 174: CustomLogger::new builds a channel and spawns a printing thread
init_logger_new(t) ==
    /\ pc[t] = "idle"
    /\ nCalls < MaxCalls
    /\ extra = "none"
    /\ nCalls' = nCalls + 1
    /\ extra' = "spawned"
    /\ pc' = [pc EXCEPT ![t] = "init_set"]
    /\ UNCHANGED <<sender, lockVars, allowed_modules, chan, consumer, cur, outVars,
                   events, enqueued, ev, sdVars, filterVars, mods>>

\* line 175: set_boxed_logger returns Err, expect panics, and the unwinding
\* call drops the new logger with its sender
init_logger_set(t) ==
    /\ pc[t] = "init_set"
    /\ extra' = "closed"
    /\ pc' = [pc EXCEPT ![t] = "panicked"]
    /\ UNCHANGED <<sender, lockVars, allowed_modules, chan, consumer, cur, outVars,
                   events, enqueued, ev, sdVars, nCalls, filterVars, mods>>

\* lines 57-60 in the second thread: its channel is disconnected, it exits
extra_consumer_exit ==
    /\ extra = "closed"
    /\ extra' = "exited"
    /\ UNCHANGED <<sender, lockVars, allowed_modules, chan, consumer, cur, outVars,
                   events, enqueued, pc, ev, sdVars, nCalls, filterVars, mods>>

NextInit ==
    \/ Next
    \/ \E t \in Threads : init_logger_new(t)
    \/ \E t \in Threads : init_logger_set(t)
    \/ extra_consumer_exit

SpecInit == Init /\ [][NextInit]_vars

(* ---- the allowlist check on its own: every allowlist of at most two   ---- *)
(* ---- entries against every target, strings bounded by MaxLen          ---- *)
ModuleNames == StringsUpTo(MaxLen - 2)
Allowlists == {{}} \cup {{w1, w2} : w1 \in ModuleNames, w2 \in ModuleNames}

InitFilter ==
    /\ new(RootModule)
    /\ fAllowed \in Allowlists
    /\ fTarget \in StringsUpTo(MaxLen)
    /\ fResult = "none"

filter_check ==
    /\ fResult = "none"
    /\ fResult' = IF check_target_allowed(fAllowed, fTarget) THEN "allowed" ELSE "rejected"
    /\ UNCHANGED <<sender, lockVars, allowed_modules, chan, consumer, cur, outVars,
                   events, enqueued, pc, ev, sdVars, nCalls, fAllowed, fTarget, mods, extra>>

NextFilter == filter_check

SpecFilter == InitFilter /\ [][NextFilter]_vars

TypeOK ==
    /\ sender \in {"Some", "None"}
    /\ thread_handle \in {"Some", "None"}
    /\ handleOwner \in Threads \cup {NoThread}
    /\ consumer \in {"recv", "print", "exited", "panicked"}
    /\ nCalls <= MaxCalls
    /\ fResult \in {"none", "allowed", "rejected"}

(* ---- the rule the allowlist is documented to implement ---- *)
PrefixRule(allowed, target) ==
    \E w \in allowed : target = w \/ IsPrefix(w \o <<":", ":">>, target)

IsAscii(s) == \A i \in 1..Len(s) : CharBytes(s[i]) = 1

\* C5: the allowlist check accepts a target exactly when some entry equals it
\* or is followed in it by "::".
C5_FilterIsPrefixRule ==
    fResult # "none" => ((fResult = "allowed") <=> PrefixRule(fAllowed, fTarget))

\* The same rule, for allowlists whose entries are all ASCII.
FilterIsPrefixRuleAscii ==
    (fResult # "none" /\ \A w \in fAllowed : IsAscii(w))
        => ((fResult = "allowed") <=> PrefixRule(fAllowed, fTarget))

(* ======================= the pipeline's properties ======================= *)
Outcome(e) == events[e].outcome
EventIds == 1..Len(events)

\* C1: every event whose send completed before a shutdown call began has been
\* printed once that call has returned.
C1_ShutdownFlushes ==
    \A t \in Threads : sdDone[t] => sdSnap[t] \subseteq Range(printed)

C1_Witness ==
    \E t \in Threads : sdDone[t] /\ Cardinality(sdSnap[t]) >= 2

\* C2: lines are printed in the order the sends completed.
C2_Fifo == IsPrefix(printed, enqueued)

C2_Witness == Len(printed) >= 2

\* C3: once a shutdown call has returned, nothing more is printed.
C3_NoOutputAfterShutdown == [][nReturned > 0 => printed' = printed]_vars

C3_Witness ==
    /\ nReturned > 0
    /\ printed # <<>>
    /\ \E e \in EventIds : Outcome(e) = "no_sender"

C7_SeverityFilter ==
    \A e \in EventIds :
        Outcome(e) \in {"enqueued", "printed", "lost"} => enabled(events[e].level)

\* C8: no event is printed twice, none is printed that was not enqueued, and
\* none that passed the filter is discarded without being printed.
C8_ExactlyOnce ==
    /\ \A i, j \in 1..Len(printed) : printed[i] = printed[j] => i = j
    /\ Range(printed) \subseteq Range(enqueued)
    /\ \A e \in EventIds : Outcome(e) \notin {"no_sender", "send_failed", "lost"}

\* C9 (as claimed): a send attempted after shutdown closed the channel is
\* reported as failed.
C9_ClosedSendReported ==
    \A e \in EventIds : Outcome(e) = "no_sender" => e \in Range(stderr)

\* C9 (amended): once shutdown has taken the sender, a log call neither
\* blocks nor panics, enqueues nothing and reports nothing.
C9_ClosedSendDropsSilently ==
    [][sender = "None" =>
         /\ enqueued' = enqueued
         /\ stderr' = stderr
         /\ \A t \in Threads :
               pc[t] = "log_send" => pc'[t] # "panicked" /\ ENABLED log_send(t)]_vars

C9_Witness ==
    \E e \in EventIds : Outcome(e) = "no_sender"

\* C10: a failed write leaves the consumer running and no later shutdown
\* call panics.
C10_WriteFailureTolerated ==
    failedWrites # {} =>
        /\ consumer # "panicked"
        /\ \A t \in Threads : pc[t] # "panicked"

C12_FaultTerminatesProcess ==
    [][(consumer = "panicked" \/ \E t \in Threads : pc[t] = "panicked")
          => UNCHANGED vars]_vars

\* C13: no second printing thread is ever spawned.
C13_SingleConsumer == extra = "none"

(* ---- the allowlist as a set: the calls made, applied in order ---- *)
RECURSIVE ApplyMods(_, _)
ApplyMods(ms, set) ==
    IF ms = <<>> THEN set
    ELSE LET h == Head(ms)
         IN  ApplyMods(Tail(ms), IF h.op = "allow" THEN set \cup {h.module_name}
                                                   ELSE set \ {h.module_name})

RECURSIVE DropRepeats(_)
DropRepeats(ms) ==
    IF Len(ms) < 2 THEN ms
    ELSE IF ms[1] = ms[2] THEN DropRepeats(Tail(ms))
         ELSE <<ms[1]>> \o DropRepeats(Tail(ms))

NoAllowYet == \A i \in 1..Len(mods) : mods[i].op # "allow"

AdmittedUnderRoot ==
    \A e \in EventIds :
        Outcome(e) # "filtered" => PrefixRule({RootModule}, events[e].target)

\* C14 (as claimed): before any allow_module call the allowlist is exactly
\* {root}, and only root and its "::" children get past the filter.
C14_RootOnlyBeforeAllow ==
    NoAllowYet => (allowed_modules = {RootModule} /\ AdmittedUnderRoot)

\* C14 (amended): before any allow_module call the allowlist is {root}, or
\* empty once disallow_module(root) has been called; only root and its "::"
\* children get past the filter.
C14_RootAtMostBeforeAllow ==
    NoAllowYet =>
        /\ allowed_modules =
              IF \E i \in 1..Len(mods) : mods[i].module_name = RootModule
              THEN {} ELSE {RootModule}
        /\ AdmittedUnderRoot

C14_Witness ==
    /\ NoAllowYet
    /\ \E e \in EventIds : Outcome(e) = "filtered"
    /\ \E e \in EventIds : Outcome(e) = "printed"

\* C15: the allowlist is the initial set with the calls applied in order as
\* set insertions and removals; repeating a call changes nothing, and neither
\* does removing an absent entry or inserting a present one.
C15_AllowlistIsSet ==
    /\ allowed_modules = ApplyMods(mods, {RootModule})
    /\ allowed_modules = ApplyMods(DropRepeats(mods), {RootModule})

C15_Witness ==
    \E i \in 1..(Len(mods) - 1) : mods[i] = mods[i + 1]

\* C16: a log call rejected by the filter changes nothing: not the channel,
\* the allowlist, the sender, the handle, the consumer, the output or stderr.
C16_RejectedLogHasNoEffect ==
    [][(Len(events') > Len(events) /\ events'[Len(events')].outcome = "filtered")
          => UNCHANGED <<chan, allowed_modules, sender, lockVars, consumer, cur,
                         outVars, enqueued, pc, ev>>]_vars

C16_Witness ==
    /\ \E e \in EventIds : Outcome(e) = "filtered"
    /\ chan # <<>>
    /\ printed # <<>>

\* C17: the printing thread ends only when the sender is gone and every
\* enqueued event has been received and written.
C17_ExitsOnlyClosedAndDrained ==
    consumer \notin {"recv", "print"} =>
        (sender = "None" /\ chan = <<>> /\ Range(enqueued) \subseteq Range(printed))

\* The loop's own exit (the break at line 59) does wait for both, and under
\* fair scheduling a closed and drained channel ends the thread.
LoopExitsOnlyClosedAndDrained ==
    consumer = "exited" =>
        (sender = "None" /\ chan = <<>> /\ Range(enqueued) \subseteq Range(printed))

ClosedAndDrainedEnds ==
    (sender = "None" /\ chan = <<>> /\ consumer = "recv") ~> (consumer = "exited")

\* C18: with shutdown calls racing, none has returned unless the printing
\* thread has drained the channel and exited; the call that joins holds the
\* thread_handle mutex, and a call waiting for that mutex cannot go on.
C18_NoEarlyReturn ==
    /\ \A t \in Threads :
          sdDone[t] => (consumer = "exited" /\ chan = <<>> /\ cur = NoEvent)
    /\ \A t \in Threads : pc[t] = "sd_join" => handleOwner = t
    /\ \A t1, t2 \in Threads :
          (pc[t1] = "sd_join" /\ pc[t2] = "sd_lock") => ~ENABLED shutdown_take_handle(t2)

C18_Witness ==
    \E t1, t2 \in Threads :
        /\ pc[t1] = "sd_join"
        /\ pc[t2] = "sd_lock"
        /\ consumer = "print"
        /\ chan # <<>>

\* C19: nothing is enqueued once a shutdown call has taken the sender; what
\* was enqueued before is all printed when a shutdown call has returned, and
\* the thread's loop exit leaves nothing in the channel.
C19_SendAtomicWithClose ==
    /\ \A t \in Threads :
          (pc[t] \in {"sd_lock", "sd_join"} \/ sdDone[t])
              => Range(enqueued) = sdSnap[t]
    /\ \A t \in Threads : sdDone[t] => Range(enqueued) \subseteq Range(printed)
    /\ consumer = "exited" => chan = <<>>
    /\ \A e \in EventIds : Outcome(e) = "no_sender" => e \notin Range(enqueued)

C19_Witness ==
    /\ \E e \in EventIds : Outcome(e) = "no_sender"
    /\ \E t \in Threads : sdDone[t] /\ sdSnap[t] # {}

\* C20: no call ends without returning: no thread that entered log,
\* allow_module, disallow_module or shutdown has died inside it.
C20_EveryCallReturns == \A t \in Threads : pc[t] # "panicked"

\* No call waits forever: under fair scheduling every call that has started
\* comes to an end, by returning or, in shutdown, by panicking.
EveryCallEnds ==
    \A t \in Threads :
        (pc[t] \in {"log_send", "sd_lock", "sd_join"}) ~> (pc[t] \in {"idle", "panicked"})

\* Taken literally under fair scheduling: every started call returns.
EveryCallReturnsFair ==
    \A t \in Threads :
        (pc[t] \in {"log_send", "sd_lock", "sd_join"}) ~> (pc[t] = "idle")
====
